---- MODULE Spec2Model ----
(***************************************************************************)
(* Model of parseltongue/base.py: the Parseltongue facade in front of an   *)
(* ad-server provider interface.  One caller constructs a facade and then  *)
(* calls its public methods one at a time.  The provider is the            *)
(* environment: every provider call is in flight for one state and then    *)
(* returns a value or raises, chosen nondeterministically.                 *)
(***************************************************************************)
EXTENDS Integers, Sequences, FiniteSets, TLC

VARIABLES
    pc,       \* where the caller's thread is: "idle" or inside a method
    op,       \* the facade call in progress or last finished: [name, args]
    self,     \* the fields __init__ assigns on the object under construction
    gateway,  \* what the caller holds: "none" or "ready" (a returned object)
    guards,   \* stack of deadlines of the active `with Timeout(...)` blocks
    calls,    \* provider calls made by the current facade call, in order
    outs,     \* what the provider answered to each of them, in order
    attempt,  \* local `attempt` of get_line_item
    response, \* local `response` of get_line_item
    result    \* how the last facade call ended: returned value or raised

vars == <<pc, op, self, gateway, guards, calls, outs, attempt, response, result>>

----------------------------------------------------------------------------
(* Bounds and constants *)

\* Imported at base.py:23 from parseltongue.constants; the value is not
\* fixed by base.py, every property below is stated relative to it.
MAX_REQUEST_ATTEMPTS == 3

\* The model stops following a get_line_item loop after this many provider
\* calls beyond MAX_REQUEST_ATTEMPTS (the loop itself has no such limit).
MaxExtraCalls == 2

\* Longest list of custom targets the provider double returns.
MaxTargets == 3

\* The model stops following a tree builder's listing after this many pages.
MaxPages == 2

DEFAULT_NETWORK_TIMEOUT == 60 * 10

----------------------------------------------------------------------------
(* Python values and exceptions *)

None == [t |-> "None"]
Obj(x) == [t |-> "obj", id |-> x]
ListVal(items) == [t |-> "list", items |-> items]

\* Python truth value of a provider result: None and [] are false.
Truthy(v) == \/ v.t = "obj"
             \/ (v.t = "list" /\ v.items # <<>>)

Exc(cls, msg) == [cls |-> cls, msg |-> msg]
Return(v) == [kind |-> "value", val |-> v]
Raise(e) == [kind |-> "raise", exc |-> e]

\* What a provider call can raise: the transient network error that
\* get_line_item catches, and any other error (not found, bad request, or
\* the exception of an expired Timeout block around the call).
NetworkError == Exc("ParseltongueNetworkError", <<"network">>)
OtherError == Exc("ProviderError", <<"not found">>)
ProviderErrors == {NetworkError, OtherError}

Targets == {"t1", "t2"}
TargetLists == UNION {[1..n -> Targets] : n \in 0..MaxTargets}

\* Everything the provider can answer to a call of provider operation pop.
ProviderOutcomes(pop) ==
    {Raise(e) : e \in ProviderErrors} \cup
    IF pop = "get_custom_targets"
    THEN {Return(None)} \cup {Return(ListVal(l)) : l \in TargetLists}
    ELSE {Return(None), Return(Obj("v1")), Return(Obj("v2"))}

----------------------------------------------------------------------------
(* Provider registry *)

ProviderNames == {"google_dfp_premium", "google_dfp_small_business", "unregistered"}

ProviderInterfaceMap ==
    [p \in {"google_dfp_premium", "google_dfp_small_business"} |-> "DFPInterface"]

ProviderConfigInterfaceMap ==
    [p \in {"google_dfp_premium", "google_dfp_small_business"} |-> "DFPConfig"]

\* dict.get(key): the entry, or None
DictGet(map, key) == IF key \in DOMAIN map THEN map[key] ELSE "None"

get_ad_service_interface_for_provider_default(provider_name) ==
    IF provider_name \in DOMAIN ProviderInterfaceMap
    THEN Return(ProviderInterfaceMap[provider_name])
    ELSE Return("DFPInterface")

get_ad_service_interface_for_provider(provider_name) ==
    LET client_interface == DictGet(ProviderInterfaceMap, provider_name)
    IN  IF client_interface = "None"
        THEN Raise(Exc("ValueError",
                       <<"There is no interface defined for provider", provider_name>>))
        ELSE Return(client_interface)

get_ad_service_config_interface_for_provider(provider_name) ==
    LET config_interface == DictGet(ProviderConfigInterfaceMap, provider_name)
    IN  IF config_interface = "None"
        THEN Raise(Exc("ValueError",
                       <<"There is no config interface defined for provider", provider_name>>))
        ELSE Return(config_interface)

----------------------------------------------------------------------------
(* Timeout guard and provider invocation *)

\* `with Timeout(self.DEFAULT_NETWORK_TIMEOUT):` entered / left
EnterTimeout(g) == Append(g, DEFAULT_NETWORK_TIMEOUT)
ExitTimeout(g) == SubSeq(g, 1, Len(g) - 1)

\* self.provider.<pop>(args), issued with guard stack g active
Invoke(pop, args, g) == [op |-> pop, args |-> args, guards |-> g]

InFlight == Len(calls) > Len(outs)

\* An attribute __init__ has not assigned yet.
Unset == [t |-> "unset"]

UnsetSelf == [provider_name |-> "unset", provider_config |-> "unset",
              provider |-> Unset, tree_builder |-> Unset]

Init ==
    /\ pc = "idle"
    /\ op = [name |-> "none", args |-> <<>>]
    /\ self = UnsetSelf
    /\ gateway = "none"
    /\ guards = <<>>
    /\ calls = <<>>
    /\ outs = <<>>
    /\ attempt = 0
    /\ response = None
    /\ result = [kind |-> "none"]

----------------------------------------------------------------------------
(* __init__ *)

ProviderConfigs == {"None", "cfg"}

\* __init__ up to the point where the liveness call is in flight
Construct(provider_name, provider_config) ==
    /\ pc = "idle"
    /\ op' = [name |-> "__init__",
              args |-> [provider_name |-> provider_name,
                        provider_config |-> provider_config]]
    /\ gateway' = "none"
    /\ attempt' = 0
    /\ response' = None
    /\ outs' = <<>>
    /\ LET icls == get_ad_service_interface_for_provider(provider_name)
           ccls == get_ad_service_config_interface_for_provider(provider_name)
           s1 == [UnsetSelf EXCEPT !.provider_name = provider_name]
       IN  IF icls.kind = "raise"
           THEN /\ self' = s1
                /\ result' = icls
                /\ pc' = "idle"
                /\ UNCHANGED guards
                /\ calls' = <<>>
           ELSE IF provider_config = "None" /\ ccls.kind = "raise"
           THEN /\ self' = s1
                /\ result' = ccls
                /\ pc' = "idle"
                /\ UNCHANGED guards
                /\ calls' = <<>>
           ELSE LET cfg == IF provider_config # "None"
                           THEN provider_config
                           ELSE ccls.val
                    prov == [t |-> "obj", cls |-> icls.val, config |-> cfg]
                IN  /\ self' = [provider_name |-> provider_name,
                                provider_config |-> cfg,
                                provider |-> prov,
                                tree_builder |-> [t |-> "obj", cls |-> "TreeBuilder",
                                                  provider_name |-> provider_name]]
                    /\ guards' = EnterTimeout(guards)
                    /\ calls' = <<Invoke("get_network_timezone", <<>>, EnterTimeout(guards))>>
                    /\ pc' = "__init__"
                    /\ result' = [kind |-> "none"]

\* A constructor that lets the liveness failure pass.
InitLiveness_swallow(out) ==
    /\ pc = "__init__"
    /\ InFlight
    /\ outs' = Append(outs, out)
    /\ guards' = ExitTimeout(guards)
    /\ pc' = "idle"
    /\ result' = Return(Obj("Parseltongue"))
    /\ gateway' = "ready"
    /\ UNCHANGED <<op, self, calls, attempt, response>>

\* the liveness call answers: lines 107-110
InitLiveness(out) ==
    /\ pc = "__init__"
    /\ InFlight
    /\ outs' = Append(outs, out)
    /\ guards' = ExitTimeout(guards)
    /\ pc' = "idle"
    /\ IF out.kind = "raise"
       THEN /\ result' = Raise(Exc("ParseltongueException",
                                   <<"Provider not configured correctly.">> \o out.exc.msg))
            /\ gateway' = "none"
       ELSE /\ result' = Return(Obj("Parseltongue"))
            /\ gateway' = "ready"
    /\ UNCHANGED <<op, self, calls, attempt, response>>

----------------------------------------------------------------------------
(* Pass-through operations: one provider call, result handed back *)

SimpleOps == {"get_network_timezone", "get_advertisers", "get_campaigns",
              "get_line_items", "get_campaign_line_items",
              "get_line_item_available_inventory", "get_creative",
              "get_creatives", "get_line_item_creatives",
              "get_line_item_report", "update_line_items",
              "create_custom_target"}

\* Argument tuples the caller passes to each pass-through operation.
SimpleArgs(name) ==
    CASE name \in {"get_network_timezone", "get_advertisers"} -> {<<>>}
      [] name \in {"get_campaigns", "get_line_items", "get_creatives"} -> {<<"kwargs">>}
      [] name = "get_campaign_line_items" -> {<<"c1">>}
      [] name = "get_line_item_available_inventory" ->
             {<<"li1", us, pid>> : us \in BOOLEAN, pid \in BOOLEAN}
      [] name = "get_creative" -> {<<"cr1">>}
      [] name = "get_line_item_creatives" -> {<<"li1">>}
      [] name = "get_line_item_report" -> {<<"start", "end", "columns">>}
      [] name = "update_line_items" -> {<<<<"li1">>>>, <<<<"li1", "li2">>>>}
      [] name = "create_custom_target" -> {<<"key", "value">>}

\* The flags get_line_item_available_inventory hands to the provider.
get_line_item_available_inventory(line_item, use_start, preserve_id) ==
    <<line_item, use_start, preserve_id>>

\* Arguments of the provider call made for a pass-through operation.
ForwardedArgs(name, args) ==
    IF name = "get_line_item_available_inventory"
    THEN get_line_item_available_inventory(args[1], args[2], args[3])
    ELSE args

\* Does the method put its provider call inside `with Timeout(...)`?
Guarded(name) == name # "get_creative"

\* Does the method hand the provider's value back (`return self.provider...`)?
ReturnsValue(name) == name # "update_line_items"

simple_call(name, args) ==
    /\ pc = "idle"
    /\ gateway = "ready"
    /\ op' = [name |-> name, args |-> args]
    /\ LET g == IF Guarded(name) THEN EnterTimeout(guards) ELSE guards
       IN  /\ guards' = g
           /\ calls' = <<Invoke(name, ForwardedArgs(name, args), g)>>
    /\ outs' = <<>>
    /\ pc' = "simple"
    /\ result' = [kind |-> "none"]
    /\ UNCHANGED <<self, gateway, attempt, response>>

\* A pass-through operation that tries once more after a network error.
simple_return_retry(out) ==
    /\ pc = "simple"
    /\ InFlight
    /\ outs' = Append(outs, out)
    /\ IF out.kind = "raise" /\ out.exc.cls = "ParseltongueNetworkError" /\ Len(calls) < 2
       THEN /\ calls' = Append(calls, calls[1])
            /\ UNCHANGED <<guards, pc, result>>
       ELSE /\ guards' = IF Guarded(op.name) THEN ExitTimeout(guards) ELSE guards
            /\ result' = IF out.kind = "value" /\ ~ReturnsValue(op.name) THEN Return(None) ELSE out
            /\ pc' = "idle"
            /\ UNCHANGED calls
    /\ UNCHANGED <<op, self, gateway, attempt, response>>

simple_return(out) ==
    /\ pc = "simple"
    /\ InFlight
    /\ outs' = Append(outs, out)
    /\ guards' = IF Guarded(op.name) THEN ExitTimeout(guards) ELSE guards
    /\ result' = IF out.kind = "value" /\ ~ReturnsValue(op.name) THEN Return(None) ELSE out
    /\ pc' = "idle"
    /\ UNCHANGED <<op, self, gateway, calls, attempt, response>>

----------------------------------------------------------------------------
(* get_campaign *)

CampaignIds == {"c1"}

get_campaign_call(campaign_id, include_line_items) ==
    /\ pc = "idle"
    /\ gateway = "ready"
    /\ op' = [name |-> "get_campaign", args |-> <<campaign_id, include_line_items>>]
    /\ guards' = EnterTimeout(guards)
    /\ calls' = <<Invoke("get_campaign", <<campaign_id>>, EnterTimeout(guards))>>
    /\ outs' = <<>>
    /\ pc' = "get_campaign"
    /\ result' = [kind |-> "none"]
    /\ UNCHANGED <<self, gateway, attempt, response>>

\* provider.get_campaign answers: lines 195-200
get_campaign_return(out) ==
    /\ pc = "get_campaign"
    /\ InFlight
    /\ outs' = Append(outs, out)
    /\ IF out.kind = "raise" \/ ~op.args[2]
       THEN /\ guards' = ExitTimeout(guards)
            /\ result' = out
            /\ pc' = "idle"
            /\ UNCHANGED calls
       ELSE \* self.get_campaign_line_items(campaign), under its own Timeout
            LET g == EnterTimeout(ExitTimeout(guards))
            IN  /\ guards' = g
                /\ calls' = Append(calls, Invoke("get_campaign_line_items", <<out.val>>, g))
                /\ pc' = "get_campaign.line_items"
                /\ UNCHANGED result
    /\ UNCHANGED <<op, self, gateway, attempt, response>>

\* provider.get_campaign_line_items answers: lines 198-200, 263-264
get_campaign_line_items_return(out) ==
    /\ pc = "get_campaign.line_items"
    /\ InFlight
    /\ outs' = Append(outs, out)
    /\ guards' = ExitTimeout(guards)
    /\ pc' = "idle"
    /\ LET campaign == outs[1].val
       IN  result' =
             IF out.kind = "raise" THEN out
             ELSE IF campaign.t = "None"
             THEN Raise(Exc("AttributeError", <<"'NoneType' object has no attribute 'line_items'">>))
             ELSE Return([t |-> "obj", id |-> campaign.id, line_items |-> out.val])
    /\ UNCHANGED <<op, self, gateway, calls, attempt, response>>

----------------------------------------------------------------------------
(* get_line_item *)

LineItemIds == {"li1"}

\* `while not response and attempt <= MAX_REQUEST_ATTEMPTS` with an off-by-one
LoopCond_short(resp, att) == ~Truthy(resp) /\ att < MAX_REQUEST_ATTEMPTS

\* `while attempt <= MAX_REQUEST_ATTEMPTS`, the result test forgotten
LoopCond_noresult(resp, att) == att <= MAX_REQUEST_ATTEMPTS

\* line 225: `while not response and attempt <= MAX_REQUEST_ATTEMPTS`
LoopCond(resp, att) == ~Truthy(resp) /\ att <= MAX_REQUEST_ATTEMPTS

\* `except Exception:` instead of the network error alone
Catches_all(exc) == TRUE

\* line 229: `except ParseltongueNetworkError`
Catches(exc) == exc.cls = "ParseltongueNetworkError"

\* lines 233-240: after the loop
AfterLoop(resp) ==
    IF ~Truthy(resp)
    THEN Raise(Exc("ParseltongueException",
                   <<"Could not fetch a line item in {0} attempts",
                     ToString(MAX_REQUEST_ATTEMPTS)>>))
    ELSE Return(resp)

\* The rest of get_line_item from the loop test on, with locals resp and att
\* and guard stack g (no Timeout block of this method active).
LoopFrom(resp, att, g) ==
    /\ attempt' = att
    /\ response' = resp
    /\ IF LoopCond(resp, att)
       THEN /\ Len(calls) < MAX_REQUEST_ATTEMPTS + MaxExtraCalls
            /\ guards' = EnterTimeout(g)
            /\ calls' = Append(calls, Invoke("get_line_item", op'.args, EnterTimeout(g)))
            /\ pc' = "get_line_item"
            /\ result' = [kind |-> "none"]
       ELSE /\ guards' = g
            /\ UNCHANGED calls
            /\ pc' = "idle"
            /\ result' = AfterLoop(resp)

get_line_item_call(line_item_id) ==
    /\ pc = "idle"
    /\ gateway = "ready"
    /\ op' = [name |-> "get_line_item", args |-> <<line_item_id>>]
    /\ outs' = <<>>
    /\ attempt' = 1
    /\ response' = None
    /\ IF LoopCond(None, 1)
       THEN /\ guards' = EnterTimeout(guards)
            /\ calls' = <<Invoke("get_line_item", <<line_item_id>>, EnterTimeout(guards))>>
            /\ pc' = "get_line_item"
            /\ result' = [kind |-> "none"]
       ELSE /\ UNCHANGED guards
            /\ calls' = <<>>
            /\ pc' = "idle"
            /\ result' = AfterLoop(None)
    /\ UNCHANGED <<self, gateway>>

\* provider.get_line_item answers one attempt: lines 225-240
get_line_item_attempt(out) ==
    /\ pc = "get_line_item"
    /\ InFlight
    /\ outs' = Append(outs, out)
    /\ UNCHANGED <<op, self, gateway>>
    /\ IF out.kind = "raise"
       THEN IF Catches(out.exc)
            THEN LoopFrom(response, attempt + 1, ExitTimeout(guards))
            ELSE /\ guards' = ExitTimeout(guards)
                 /\ result' = out
                 /\ pc' = "idle"
                 /\ UNCHANGED <<calls, attempt, response>>
       ELSE LoopFrom(out.val, attempt, ExitTimeout(guards))

----------------------------------------------------------------------------
(* get_custom_target_by_name *)

Names == {"n1", "n2"}

\* lines 362-364: key_name=parent_name, value_name=name
CustomTargetQuery(name, parent_name) == [key_name |-> parent_name, value_name |-> name]

\* `len(targets) > 2` in place of `> 1`
SelectCustomTarget_two(targets) ==
    IF Truthy(targets) /\ Len(targets.items) > 2
    THEN Raise(Exc("ParseltongueException", <<"Given name is not unique">>))
    ELSE IF Truthy(targets) THEN Return(Obj(targets.items[1]))
    ELSE Return(None)

\* lines 366-371
SelectCustomTarget(targets) ==
    IF Truthy(targets) /\ Len(targets.items) > 1
    THEN Raise(Exc("ParseltongueException", <<"Given name is not unique">>))
    ELSE IF Truthy(targets) THEN Return(Obj(targets.items[1]))
    ELSE Return(None)

get_custom_target_by_name_call(name, parent_name) ==
    /\ pc = "idle"
    /\ gateway = "ready"
    /\ op' = [name |-> "get_custom_target_by_name",
              args |-> [name |-> name, parent_name |-> parent_name]]
    /\ guards' = EnterTimeout(guards)
    /\ calls' = <<Invoke("get_custom_targets", CustomTargetQuery(name, parent_name),
                         EnterTimeout(guards))>>
    /\ outs' = <<>>
    /\ pc' = "get_custom_target_by_name"
    /\ result' = [kind |-> "none"]
    /\ UNCHANGED <<self, gateway, attempt, response>>

get_custom_target_by_name_return(out) ==
    /\ pc = "get_custom_target_by_name"
    /\ InFlight
    /\ outs' = Append(outs, out)
    /\ guards' = ExitTimeout(guards)
    /\ result' = IF out.kind = "raise" THEN out ELSE SelectCustomTarget(out.val)
    /\ pc' = "idle"
    /\ UNCHANGED <<op, self, gateway, calls, attempt, response>>

----------------------------------------------------------------------------
(* update_line_item *)

LineItems == {"li1", "li2"}

\* update_line_item enters its Timeout and calls update_line_items([line_item]),
\* which enters its own and calls the provider.
update_line_item_call(line_item) ==
    /\ pc = "idle"
    /\ gateway = "ready"
    /\ op' = [name |-> "update_line_item", args |-> <<line_item>>]
    /\ LET g == EnterTimeout(EnterTimeout(guards))
       IN  /\ guards' = g
           /\ calls' = <<Invoke("update_line_items", <<<<line_item>>>>, g)>>
    /\ outs' = <<>>
    /\ pc' = "update_line_item"
    /\ result' = [kind |-> "none"]
    /\ UNCHANGED <<self, gateway, attempt, response>>

update_line_item_return(out) ==
    /\ pc = "update_line_item"
    /\ InFlight
    /\ outs' = Append(outs, out)
    /\ guards' = ExitTimeout(ExitTimeout(guards))
    /\ result' = IF out.kind = "raise" THEN out ELSE Return(None)
    /\ pc' = "idle"
    /\ UNCHANGED <<op, self, gateway, calls, attempt, response>>

----------------------------------------------------------------------------
(* construct_tree *)

TargetTypes == {"custom"}

\* The provider operation the tree builder lists entities of a type with.
TreeBuilderQuery(target_type) == "get_custom_targets"

RECURSIVE Listing(_)
\* The entities of all pages answered so far, in order.
Listing(os) ==
    IF os = <<>> THEN <<>>
    ELSE LET o == os[Len(os)]
             rest == Listing(SubSeq(os, 1, Len(os) - 1))
         IN  IF o.kind = "value" /\ Truthy(o.val) THEN rest \o o.val.items ELSE rest

\* The tree handed back, reduced to the entities it was assembled from.
BuildTree(os) == [t |-> "tree", nodes |-> Listing(os)]

\* line 381: control goes to self.tree_builder, which queries the provider
\* it was given in __init__; construct_tree enters no Timeout block.
construct_tree_call(target_type) ==
    /\ pc = "idle"
    /\ gateway = "ready"
    /\ op' = [name |-> "construct_tree", args |-> <<target_type>>]
    /\ UNCHANGED guards
    /\ calls' = <<Invoke(TreeBuilderQuery(target_type), [page |-> 1], guards)>>
    /\ outs' = <<>>
    /\ pc' = "construct_tree"
    /\ result' = [kind |-> "none"]
    /\ UNCHANGED <<self, gateway, attempt, response>>

\* The provider answers one page of the listing: an error leaves
\* construct_tree as it is, an empty page ends the listing, any other page
\* is followed by a query for the next one.
construct_tree_page(out) ==
    /\ pc = "construct_tree"
    /\ InFlight
    /\ outs' = Append(outs, out)
    /\ UNCHANGED <<op, self, gateway, guards, attempt, response>>
    /\ IF out.kind = "raise"
       THEN /\ result' = out
            /\ pc' = "idle"
            /\ UNCHANGED calls
       ELSE IF ~Truthy(out.val)
       THEN /\ result' = Return(BuildTree(Append(outs, out)))
            /\ pc' = "idle"
            /\ UNCHANGED calls
       ELSE /\ Len(calls) < MaxPages
            /\ calls' = Append(calls, Invoke(TreeBuilderQuery(op.args[1]),
                                             [page |-> Len(calls) + 1], guards))
            /\ UNCHANGED <<pc, result>>

----------------------------------------------------------------------------

Next ==
    \/ \E p \in ProviderNames, c \in ProviderConfigs : Construct(p, c)
    \/ \E out \in ProviderOutcomes("get_network_timezone") : InitLiveness(out)
    \/ \E name \in SimpleOps : \E args \in SimpleArgs(name) : simple_call(name, args)
    \/ \E out \in ProviderOutcomes(op.name) : simple_return(out)
    \/ \E c \in CampaignIds, inc \in BOOLEAN : get_campaign_call(c, inc)
    \/ \E out \in ProviderOutcomes("get_campaign") : get_campaign_return(out)
    \/ \E out \in ProviderOutcomes("get_campaign_line_items") : get_campaign_line_items_return(out)
    \/ \E id \in LineItemIds : get_line_item_call(id)
    \/ \E out \in ProviderOutcomes("get_line_item") : get_line_item_attempt(out)
    \/ \E n \in Names, pn \in Names : get_custom_target_by_name_call(n, pn)
    \/ \E out \in ProviderOutcomes("get_custom_targets") : get_custom_target_by_name_return(out)
    \/ \E li \in LineItems : update_line_item_call(li)
    \/ \E out \in ProviderOutcomes("update_line_items") : update_line_item_return(out)
    \/ \E tt \in TargetTypes : construct_tree_call(tt)
    \/ \E out \in ProviderOutcomes("get_custom_targets") : construct_tree_page(out)

Spec == Init /\ [][Next]_vars

----------------------------------------------------------------------------
(* Properties *)

IsNetworkFailure(o) == o.kind = "raise" /\ o.exc.cls = "ParseltongueNetworkError"
IsOtherFailure(o) == o.kind = "raise" /\ o.exc.cls # "ParseltongueNetworkError"
IsExhausted(r) ==
    /\ r.kind = "raise"
    /\ r.exc.cls = "ParseltongueException"
    /\ r.exc.msg[1] = "Could not fetch a line item in {0} attempts"

\* C1: while every provider get_line_item attempt fails with the network
\* error, get_line_item makes one provider call at a time, never more than
\* MAX_REQUEST_ATTEMPTS of them, is finished exactly when the
\* MAX_REQUEST_ATTEMPTS-th has failed, and then has raised the
\* "Could not fetch a line item" ParseltongueException.
C1_RetryExhausted ==
    (op.name = "get_line_item" /\ \A i \in DOMAIN outs : IsNetworkFailure(outs[i])) =>
        /\ Len(calls) <= MAX_REQUEST_ATTEMPTS
        /\ Len(calls) <= Len(outs) + 1
        /\ \A i \in DOMAIN calls : calls[i].op = "get_line_item" /\ calls[i].args = op.args
        /\ (pc = "idle") <=> (Len(outs) = MAX_REQUEST_ATTEMPTS)
        /\ (pc = "idle") => IsExhausted(result)

C1_Witness ==
    /\ op.name = "get_line_item"
    /\ pc = "idle"
    /\ Len(outs) = MAX_REQUEST_ATTEMPTS
    /\ Len(calls) = MAX_REQUEST_ATTEMPTS
    /\ \A i \in DOMAIN outs : IsNetworkFailure(outs[i])
    /\ IsExhausted(result)

\* The case of C2: k provider answers so far, the first k-1 network errors
\* and the k-th a non-empty line item.
SuccessAtLast ==
    /\ op.name = "get_line_item"
    /\ Len(outs) >= 1
    /\ \A i \in 1..(Len(outs) - 1) : IsNetworkFailure(outs[i])
    /\ outs[Len(outs)].kind = "value"
    /\ Truthy(outs[Len(outs)].val)

\* C2: when the first k-1 attempts of get_line_item fail with the network
\* error and attempt k returns a non-empty line item, k is at most
\* MAX_REQUEST_ATTEMPTS, the call is over, it returned that line item, and
\* the provider was called exactly k times.
C2_SuccessAtK ==
    SuccessAtLast =>
        /\ Len(outs) <= MAX_REQUEST_ATTEMPTS
        /\ pc = "idle"
        /\ result = outs[Len(outs)]
        /\ Len(calls) = Len(outs)

C2_Witness ==
    /\ SuccessAtLast
    /\ Len(outs) = MAX_REQUEST_ATTEMPTS
    /\ pc = "idle"
    /\ result = outs[Len(outs)]

\* C3 (as claimed): a get_line_item call never makes more than
\* MAX_REQUEST_ATTEMPTS provider calls, whatever the provider answers.
C3_BoundedCalls ==
    op.name = "get_line_item" => Len(calls) <= MAX_REQUEST_ATTEMPTS

\* C4: in get_line_item a provider error other than the network error is
\* the last thing that happens: it is the answer to the last provider call,
\* the call is over and raised that very error.
C4_OtherErrorPropagates ==
    op.name = "get_line_item" =>
        \A i \in DOMAIN outs :
            IsOtherFailure(outs[i]) =>
                /\ i = Len(outs)
                /\ Len(calls) = i
                /\ pc = "idle"
                /\ result = outs[i]

C4_Witness ==
    /\ op.name = "get_line_item"
    /\ Len(outs) = MAX_REQUEST_ATTEMPTS
    /\ \A i \in 1..(Len(outs) - 1) : IsNetworkFailure(outs[i])
    /\ IsOtherFailure(outs[Len(outs)])
    /\ pc = "idle"
    /\ result = outs[Len(outs)]

\* C5: a finished construction for a registered provider has made exactly
\* the liveness call; the caller holds a facade if and only if that call
\* returned; if it raised, construction raised the "Provider not configured
\* correctly" ParseltongueException and the caller holds nothing.
C5_ConstructIffLiveness ==
    (op.name = "__init__" /\ pc = "idle"
        /\ op.args.provider_name \in DOMAIN ProviderInterfaceMap) =>
        /\ Len(calls) = 1 /\ Len(outs) = 1
        /\ calls[1].op = "get_network_timezone"
        /\ (gateway = "ready") <=> (outs[1].kind = "value")
        /\ (outs[1].kind = "value") => result.kind = "value"
        /\ (outs[1].kind = "raise") =>
              /\ result.kind = "raise"
              /\ result.exc.cls = "ParseltongueException"
              /\ result.exc.msg[1] = "Provider not configured correctly."
              /\ gateway = "none"

C5_Witness ==
    /\ op.name = "__init__"
    /\ pc = "idle"
    /\ op.args.provider_name \in DOMAIN ProviderInterfaceMap
    /\ Len(outs) = 1
    /\ outs[1].kind = "raise"
    /\ result.kind = "raise"
    /\ gateway = "none"

\* C6: get_custom_target_by_name(name, parent_name) asks the provider for
\* the custom targets with key_name = parent_name and value_name = name; for
\* a returned list it gives None on no entry, the entry on exactly one, and
\* raises the "Given name is not unique" ParseltongueException on two or more.
C6_CustomTargetByName ==
    (op.name = "get_custom_target_by_name") =>
        /\ Len(calls) = 1
        /\ calls[1].op = "get_custom_targets"
        /\ calls[1].args.key_name = op.args.parent_name
        /\ calls[1].args.value_name = op.args.name
        /\ (pc = "idle" /\ outs[1].kind = "value" /\ outs[1].val.t = "list") =>
              LET items == outs[1].val.items
              IN  /\ (Len(items) = 0) => result = Return(None)
                  /\ (Len(items) = 1) => result = Return(Obj(items[1]))
                  /\ (Len(items) >= 2) =>
                        /\ result.kind = "raise"
                        /\ result.exc = Exc("ParseltongueException",
                                            <<"Given name is not unique">>)

C6_Witness ==
    /\ op.name = "get_custom_target_by_name"
    /\ op.args.name # op.args.parent_name
    /\ pc = "idle"
    /\ outs[1].kind = "value"
    /\ outs[1].val.t = "list"
    /\ Len(outs[1].val.items) = 2
    /\ result.kind = "raise"

\* C7 (as claimed): whenever get_line_item_available_inventory is called
\* with preserve_id true, the provider receives use_start true.
C7_PreserveIdForcesUseStart ==
    \A i \in DOMAIN calls :
        (calls[i].op = "get_line_item_available_inventory" /\ op.args[3]) =>
            calls[i].args[2]

\* C8 (as claimed): every provider call made by the constructor's liveness
\* check or by one of the listed operations (all but construct_tree) is
\* issued inside at least one Timeout block, each with the 600 second
\* deadline.
C8_AlwaysGuarded ==
    (op.name # "construct_tree") =>
        \A i \in DOMAIN calls :
            /\ calls[i].guards # <<>>
            /\ \A j \in DOMAIN calls[i].guards : calls[i].guards[j] = 600

\* C9: in every public operation other than get_line_item a provider
\* failure, network error included, is the answer to the last call made and
\* is what the operation raises, and no provider call is made after it.  In
\* every such operation that has a provider operation of its own, that
\* operation is the first call and no provider operation is invoked twice
\* (get_campaign may add one get_campaign_line_items call); construct_tree,
\* which has none, never asks for the same page twice.
C9_NoRetryElsewhere ==
    (op.name \notin {"none", "__init__", "get_line_item"}) =>
        /\ Len(calls) >= 1
        /\ (op.name # "construct_tree") =>
              /\ calls[1].op =
                    (CASE op.name = "get_custom_target_by_name" -> "get_custom_targets"
                       [] op.name = "update_line_item" -> "update_line_items"
                       [] OTHER -> op.name)
              /\ Len(calls) <= (IF op.name = "get_campaign" /\ op.args[2] THEN 2 ELSE 1)
              /\ \A i, j \in DOMAIN calls : calls[i].op = calls[j].op => i = j
        /\ (op.name = "construct_tree") =>
              \A i, j \in DOMAIN calls : calls[i].args = calls[j].args => i = j
        /\ \A i \in DOMAIN outs :
              outs[i].kind = "raise" =>
                  /\ i = Len(calls)
                  /\ pc = "idle"
                  /\ result = outs[i]

C9_Witness ==
    /\ op.name \in {"update_line_items", "create_custom_target", "get_campaigns"}
    /\ pc = "idle"
    /\ Len(calls) = 1
    /\ Len(outs) = 1
    /\ IsNetworkFailure(outs[1])
    /\ result = outs[1]

\* The case of C10: a finished construction for a provider name that is in
\* neither registry map.
UnregisteredConstruction ==
    /\ op.name = "__init__"
    /\ pc = "idle"
    /\ op.args.provider_name \notin DOMAIN ProviderInterfaceMap
    /\ op.args.provider_name \notin DOMAIN ProviderConfigInterfaceMap

\* C10 (as claimed): construction for an unregistered provider name raises
\* the same error class as a failed liveness check (ParseltongueException),
\* with no provider instance created and no provider call made.
C10_UnregisteredConfigurationError ==
    UnregisteredConstruction =>
        /\ result.kind = "raise"
        /\ result.exc.cls = "ParseltongueException"
        /\ self.provider = Unset
        /\ calls = <<>>

\* C10 (amended): construction for an unregistered provider name raises the
\* ValueError of the interface lookup, with no provider instance or tree
\* builder created, no provider call made and nothing handed to the caller.
C10_UnregisteredValueError ==
    UnregisteredConstruction =>
        /\ result.kind = "raise"
        /\ result.exc = Exc("ValueError",
                            <<"There is no interface defined for provider",
                              op.args.provider_name>>)
        /\ self.provider = Unset
        /\ self.tree_builder = Unset
        /\ calls = <<>>
        /\ gateway = "none"

C10_Witness ==
    /\ UnregisteredConstruction
    /\ result.kind = "raise"
    /\ result.exc.cls = "ValueError"
    /\ calls = <<>>

====
